---- MODULE Spec2Model ----
(***************************************************************************)
(* Model of the quiz command handlers of cmds.js.                          *)
(*                                                                         *)
(* Each session owns a readline interface (rl) and a socket.  A handler is *)
(* a promise chain: it suspends at every Store query and at every          *)
(* rl.question, and these suspension points are the steps of the model.    *)
(* Text is a sequence of one-character strings, so that trim, toLowerCase  *)
(* and parseInt are computed and not assumed.                              *)
(***************************************************************************)
EXTENDS Integers, Sequences, FiniteSets, TLC

(* ------------------------------ bounds -------------------------------- *)

\* Highest id the Store assigns; also the largest number of quizzes.
MaxId == 2
\* Commands the sessions may issue, all told.
MaxCmds == 2

Sessions == {"s1", "s2"}

(* ------------------------------- text --------------------------------- *)

\* The empty text.
Empty == <<>>

\* String.prototype.toLowerCase on one character.
LowerChar(c) ==
    CASE c = "A" -> "a"
      [] c = "B" -> "b"
      [] OTHER -> c

toLowerCase(str) == [i \in 1..Len(str) |-> LowerChar(str[i])]

IsSpace(c) == c = " "

RECURSIVE trimStart(_)
trimStart(str) ==
    IF str # Empty /\ IsSpace(Head(str)) THEN trimStart(Tail(str)) ELSE str

RECURSIVE trimEnd(_)
trimEnd(str) ==
    IF str # Empty /\ IsSpace(str[Len(str)])
    THEN trimEnd(SubSeq(str, 1, Len(str) - 1))
    ELSE str

\* String.prototype.trim
trim(str) == trimEnd(trimStart(str))

\* The lines a user may type at a prompt.
Lines == { Empty, <<" ", "A", " ">>, <<"b">> }

(* --------------------------- validateId ------------------------------- *)

\* The argument of a command when none was typed (typeof id === "undefined").
Undefined == <<"undefined">>

IsDigit(c) == c \in {"0", "1", "2", "3", "4", "5", "6", "7", "8", "9"}

DigitVal(c) ==
    CASE c = "0" -> 0 [] c = "1" -> 1 [] c = "2" -> 2 [] c = "3" -> 3
      [] c = "4" -> 4 [] c = "5" -> 5 [] c = "6" -> 6 [] c = "7" -> 7
      [] c = "8" -> 8 [] c = "9" -> 9 [] OTHER -> 0

\* Value of the longest digit prefix of str, continuing from acc.
RECURSIVE digits(_, _)
digits(str, acc) ==
    IF str # Empty /\ IsDigit(Head(str))
    THEN digits(Tail(str), 10 * acc + DigitVal(Head(str)))
    ELSE acc

\* parseInt(str): leading whitespace skipped, an optional sign, then the
\* longest prefix of digits; not-a-number when there is no digit.
parseInt(str) ==
    LET s == trimStart(str)
        neg == s # Empty /\ Head(s) = "-"
        signed == s # Empty /\ Head(s) \in {"-", "+"}
        body == IF signed THEN Tail(s) ELSE s
    IN  IF body = Empty \/ ~IsDigit(Head(body))
        THEN [isNaN |-> TRUE, value |-> 0]
        ELSE [isNaN |-> FALSE,
              value |-> IF neg THEN 0 - digits(body, 0) ELSE digits(body, 0)]

\* validateId with a range check added: a negative id is turned down.
validateIdNonNegative(arg) ==
    IF arg = Undefined
    THEN [ok |-> FALSE, error |-> "MissingParameter", id |-> 0]
    ELSE IF parseInt(arg).isNaN \/ parseInt(arg).value < 0
         THEN [ok |-> FALSE, error |-> "InvalidParameter", id |-> 0]
         ELSE [ok |-> TRUE, error |-> "", id |-> parseInt(arg).value]

\* The outcome of validateId: the rejection, or the resolved id.
validateId(arg) ==
    IF arg = Undefined
    THEN [ok |-> FALSE, error |-> "MissingParameter", id |-> 0]
    ELSE IF parseInt(arg).isNaN
         THEN [ok |-> FALSE, error |-> "InvalidParameter", id |-> 0]
         ELSE [ok |-> TRUE, error |-> "", id |-> parseInt(arg).value]

\* The arguments a user may type after a command that takes an id.
Args == { Undefined, <<"x">>, <<"1">>, <<" ", "2", "x">> }

(* ---------------------------- Quiz Store ------------------------------ *)

\* What findById resolves to when no row has the id (null).
NoQuiz == [id |-> 0, question |-> Empty, answer |-> Empty]

Quiz(i, question, answer) == [id |-> i, question |-> question, answer |-> answer]

\* models.quiz.findById(id)
findById(st, i) ==
    IF \E r \in st : r.id = i THEN CHOOSE r \in st : r.id = i ELSE NoQuiz

\* The rows with an id above lo, by increasing id.
RECURSIVE rowsFrom(_, _)
rowsFrom(st, lo) ==
    LET rest == { r \in st : r.id > lo }
    IN  IF rest = {} THEN <<>>
        ELSE LET r == CHOOSE x \in rest : \A y \in rest : x.id <= y.id
             IN  <<r>> \o rowsFrom(st, r.id)

\* models.quiz.findAll()
findAll(st) == rowsFrom(st, 0)

\* A table with no validation: every text is accepted.
validateNothing(question, answer) == <<>>

\* The field messages of the validation error a write of (question, answer)
\* is rejected with, one per empty field; none when the write is accepted.
validate(question, answer) ==
    (IF question = Empty THEN <<"question">> ELSE <<>>)
    \o (IF answer = Empty THEN <<"answer">> ELSE <<>>)

\* models.quiz.create({question, answer}), accepted: a row with a new id.
create(st, i, question, answer) == st \cup { Quiz(i, question, answer) }

\* quiz.save(), accepted: the row with the quiz's id is rewritten.
save(st, quiz) ==
    IF \E r \in st : r.id = quiz.id
    THEN { r \in st : r.id # quiz.id } \cup { quiz }
    ELSE st

\* models.quiz.destroy({where: {id}})
destroy(st, i) == { r \in st : r.id # i }

\* The tables a session may find when it starts.  The table is persistent
\* and only rejects empty text, so a stored answer may carry capitals or
\* surrounding blanks.
InitStores ==
    { {},
      { Quiz(1, <<"b">>, <<"A">>) },
      { Quiz(1, <<"b">>, <<"A">>), Quiz(2, <<"a">>, <<" ", "a">>) },
      { Quiz(1, <<"a">>, <<"a">>), Quiz(2, <<"b">>, <<"b">>) } }

RECURSIVE maxIdOf(_)
maxIdOf(st) ==
    IF st = {} THEN 0
    ELSE LET r == CHOOSE x \in st : TRUE
             m == maxIdOf(st \ {r})
         IN  IF r.id > m THEN r.id ELSE m

(* ------------------------- Session Channel ---------------------------- *)

\* One thing a handler does on its channel.
Ev(ev, kind, n, x, y) == [ev |-> ev, kind |-> kind, n |-> n, x |-> x, y |-> y]

\* log(socket, text)
log(kind, n, x, y) == Ev("log", kind, n, x, y)
\* biglog(socket, text, color)
biglog(kind, n) == Ev("biglog", kind, n, Empty, Empty)
\* errorlog(socket, message)
errorlog(kind) == Ev("errorlog", kind, 0, Empty, Empty)
\* rl.question(text, callback): a prompt now in flight
question(kind, text) == Ev("question", kind, 0, text, Empty)
\* the line the user sent in response, as the callback of rl.question gets it
typed(text) == Ev("line", "", 0, text, Empty)
\* rl.prompt(): ready for the next command
prompt == Ev("prompt", "", 0, Empty, Empty)
\* rl.close(); socket.end()
close == Ev("close", "", 0, Empty, Empty)

\* What errorlog(message) does, called without the socket: its first
\* argument is then no channel, so nothing reaches the session's channel;
\* the call either throws or is lost.
errorlogNoSocket == {"throws", "dropped"}

\* error.errors.forEach(({message}) => errorlog(message)) and the catch
\* that follows it: the events that reach the channel.
forEachNoSocket(msgs, how) ==
    IF msgs # <<>> /\ how = "throws" THEN <<errorlog("TypeError")>> ELSE <<>>

(* ------------------------------ state --------------------------------- *)

VARIABLES
    store,          \* the quiz table
    nextId,         \* the id the table gives to the next row
    pc,             \* where each session's handler is suspended
    cmd,            \* the command each session runs, or ran last
    id,             \* the id validateId resolved
    quiz,           \* the quiz the handler holds in memory
    q,              \* the response to the first prompt of add and edit
    score,          \* playCmd: score
    toBeResolved,   \* playCmd: positions not asked yet
    preg_resp,      \* playCmd: the quizzes loaded
    out,            \* what the current command did on its channel, in order
    left,           \* commands the sessions may still issue
    missing,        \* the Store held no row for the id when it was queried
    asked,          \* playCmd: the positions asked, in order
    last,           \* the response makeQuestion resolved last
    writes,         \* how many times the current command changed the table
    param,          \* the argument the command was given
    fresh           \* the rows add created, as (id, first response, second
                    \* response), whose id no edit or delete has written since

storeVars == <<store, nextId, fresh>>
playVars == <<score, toBeResolved, preg_resp, asked>>
vars == <<store, nextId, pc, cmd, id, quiz, q, score, toBeResolved, preg_resp,
          out, left, missing, asked, last, writes, param, fresh>>

Init ==
    /\ store \in InitStores
    /\ nextId = maxIdOf(store) + 1
    /\ pc = [s \in Sessions |-> "idle"]
    /\ cmd = [s \in Sessions |-> "none"]
    /\ id = [s \in Sessions |-> 0]
    /\ quiz = [s \in Sessions |-> NoQuiz]
    /\ q = [s \in Sessions |-> Empty]
    /\ score = [s \in Sessions |-> 0]
    /\ toBeResolved = [s \in Sessions |-> <<>>]
    /\ preg_resp = [s \in Sessions |-> <<>>]
    /\ out = [s \in Sessions |-> <<>>]
    /\ left = MaxCmds
    /\ missing = [s \in Sessions |-> FALSE]
    /\ asked = [s \in Sessions |-> <<>>]
    /\ last = [s \in Sessions |-> Empty]
    /\ writes = [s \in Sessions |-> 0]
    /\ param = [s \in Sessions |-> Undefined]
    /\ fresh = {}

(* ----------------------------- helpers -------------------------------- *)

\* The Dispatcher takes the next command of a session when no handler of
\* the session is running and the channel is open.
Accepts(s) == pc[s] = "idle" /\ left > 0

\* A handler starts: its locals are fresh, and it has done o on the channel.
Begin(s, c, i, p, o) ==
    /\ cmd' = [cmd EXCEPT ![s] = c]
    /\ id' = [id EXCEPT ![s] = i]
    /\ pc' = [pc EXCEPT ![s] = p]
    /\ out' = [out EXCEPT ![s] = o]
    /\ left' = left - 1
    /\ quiz' = [quiz EXCEPT ![s] = NoQuiz]
    /\ q' = [q EXCEPT ![s] = Empty]
    /\ score' = [score EXCEPT ![s] = 0]
    /\ toBeResolved' = [toBeResolved EXCEPT ![s] = <<>>]
    /\ preg_resp' = [preg_resp EXCEPT ![s] = <<>>]
    /\ missing' = [missing EXCEPT ![s] = FALSE]
    /\ asked' = [asked EXCEPT ![s] = <<>>]
    /\ last' = [last EXCEPT ![s] = Empty]
    /\ writes' = [writes EXCEPT ![s] = 0]
    /\ UNCHANGED storeVars

\* The handler of s does o on its channel and is suspended at p.
Emit(s, p, o) ==
    /\ pc' = [pc EXCEPT ![s] = p]
    /\ out' = [out EXCEPT ![s] = @ \o o]

\* makeQuestion resolves with the line typed, trimmed.
makeQuestion(line) == trim(line)

\* The handler of s receives the response to its prompt.
Resolve(s, line) == last' = [last EXCEPT ![s] = makeQuestion(line)]

\* A handler that goes on to the Store whatever validateId says.
WithIdAlways(s, c, arg, p) ==
    /\ param' = [param EXCEPT ![s] = arg]
    /\ Begin(s, c, validateId(arg).id, p, <<>>)

\* A command that starts with validateId(id) and then queries the Store.
WithId(s, c, arg, p) ==
    LET v == validateId(arg)
    IN  /\ param' = [param EXCEPT ![s] = arg]
        /\ IF v.ok
           THEN Begin(s, c, v.id, p, <<>>)
           ELSE Begin(s, c, 0, "idle", <<errorlog(v.error), prompt>>)

(* ------------------------- helpCmd, creditsCmd ------------------------ *)

helpCmd(s) ==
    /\ Accepts(s)
    /\ param' = [param EXCEPT ![s] = Undefined]
    /\ Begin(s, "help", 0, "idle",
             [i \in 1..11 |-> log("help", i, Empty, Empty)] \o <<prompt>>)

creditsCmd(s) ==
    /\ Accepts(s)
    /\ param' = [param EXCEPT ![s] = Undefined]
    /\ Begin(s, "credits", 0, "idle",
             <<log("credits", 1, Empty, Empty), log("credits", 2, Empty, Empty),
               prompt>>)

\* quitCmd with the rl.prompt() of its last line not commented out.
quitCmdPrompt(s) ==
    /\ Accepts(s)
    /\ param' = [param EXCEPT ![s] = Undefined]
    /\ Begin(s, "quit", 0, "closed", <<close, prompt>>)

quitCmd(s) ==
    /\ Accepts(s)
    /\ param' = [param EXCEPT ![s] = Undefined]
    /\ Begin(s, "quit", 0, "closed", <<close>>)

(* ------------------------------ listCmd ------------------------------- *)

listCmd(s) ==
    /\ Accepts(s)
    /\ param' = [param EXCEPT ![s] = Undefined]
    /\ Begin(s, "list", 0, "findAll", <<>>)

\* .each(quiz => log(...))
listEach(rows) ==
    [i \in 1..Len(rows) |-> log("list", rows[i].id, rows[i].question, Empty)]

ListReply(s) ==
    /\ pc[s] = "findAll" /\ cmd[s] = "list"
    /\ \E fails \in BOOLEAN :
        Emit(s, "idle",
             (IF fails THEN <<errorlog("StoreError")>> ELSE listEach(findAll(store)))
             \o <<prompt>>)
    /\ UNCHANGED <<storeVars, cmd, id, param, quiz, q, playVars, left, missing,
                   last, writes>>

(* ------------------------------ showCmd ------------------------------- *)

showCmd(s, arg) ==
    /\ Accepts(s)
    /\ WithId(s, "show", arg, "findById")

\* The handler without its check of the quiz found.
notFoundNever(r) == FALSE

\* if (!quiz) throw new Error(...)
notFound(r) == r = NoQuiz

\* The chain of showCmd without its last .then(() => rl.prompt()).
showThenNoPrompt(r) ==
    IF notFound(r)
    THEN <<errorlog("NotFound")>>
    ELSE <<log("show", r.id, r.question, r.answer)>>

\* The chain of showCmd printing the question where the answer goes.
showThenQuestionTwice(r) ==
    (IF notFound(r)
     THEN <<errorlog("NotFound")>>
     ELSE <<log("show", r.id, r.question, r.question)>>)
    \o <<prompt>>

\* The chain of showCmd after findById resolved with r.
showThen(r) ==
    (IF notFound(r)
     THEN <<errorlog("NotFound")>>
     ELSE <<log("show", r.id, r.question, r.answer)>>)
    \o <<prompt>>

ShowReply(s) ==
    /\ pc[s] = "findById" /\ cmd[s] = "show"
    /\ \E fails \in BOOLEAN :
        LET r == findById(store, id[s])
        IN  /\ Emit(s, "idle",
                    IF fails THEN <<errorlog("StoreError"), prompt>> ELSE showThen(r))
            /\ missing' = [missing EXCEPT ![s] = ~fails /\ r = NoQuiz]
    /\ UNCHANGED <<storeVars, cmd, id, param, quiz, q, playVars, left, last, writes>>

(* ----------------------------- deleteCmd ------------------------------ *)

deleteCmd(s, arg) ==
    /\ Accepts(s)
    /\ WithId(s, "delete", arg, "destroy")

DestroyReply(s) ==
    /\ pc[s] = "destroy" /\ cmd[s] = "delete"
    /\ \E fails \in BOOLEAN :
        /\ store' = IF fails THEN store ELSE destroy(store, id[s])
        /\ fresh' = IF fails THEN fresh ELSE { r \in fresh : r.id # id[s] }
        /\ Emit(s, "idle",
                (IF fails THEN <<errorlog("StoreError")>> ELSE <<>>) \o <<prompt>>)
        /\ missing' = [missing EXCEPT ![s] = ~fails /\ findById(store, id[s]) = NoQuiz]
    /\ writes' = [writes EXCEPT ![s] = IF store' # store THEN @ + 1 ELSE @]
    /\ UNCHANGED <<nextId, cmd, id, param, quiz, q, playVars, left, last>>

(* ------------------------------- addCmd ------------------------------- *)

\* addCmd asking for the question and the answer at once, without waiting
\* for the first response.
addCmdBoth(s) ==
    /\ Accepts(s)
    /\ param' = [param EXCEPT ![s] = Undefined]
    /\ nextId <= MaxId
    /\ Begin(s, "add", 0, "askQ",
             <<question("add_question", Empty), question("add_answer", Empty)>>)

addCmd(s) ==
    /\ Accepts(s)
    /\ param' = [param EXCEPT ![s] = Undefined]
    /\ nextId <= MaxId
    /\ Begin(s, "add", 0, "askQ", <<question("add_question", Empty)>>)

AddQuestion(s, line) ==
    /\ pc[s] = "askQ" /\ cmd[s] = "add"
    /\ Resolve(s, line)
    /\ q' = [q EXCEPT ![s] = makeQuestion(line)]
    /\ Emit(s, "askA", <<typed(makeQuestion(line)), question("add_answer", Empty)>>)
    /\ UNCHANGED <<storeVars, cmd, id, param, quiz, playVars, left, missing, writes>>

AddAnswer(s, line) ==
    /\ pc[s] = "askA" /\ cmd[s] = "add"
    /\ Resolve(s, line)
    /\ quiz' = [quiz EXCEPT ![s] = Quiz(0, q[s], makeQuestion(line))]
    /\ Emit(s, "create", <<typed(makeQuestion(line))>>)
    /\ UNCHANGED <<storeVars, cmd, id, param, q, playVars, left, missing, writes>>

\* .catch(Sequelize.ValidationError, ...) of addCmd, editCmd and playCmd, and
\* the .catch(error => ...) after it.
catchValidation(msgs, how) ==
    <<errorlog("ValidationHeader")>> \o forEachNoSocket(msgs, how)

CreateReply(s) ==
    /\ pc[s] = "create" /\ cmd[s] = "add"
    /\ \E fails \in BOOLEAN, how \in errorlogNoSocket :
        LET msgs == validate(quiz[s].question, quiz[s].answer)
            row == Quiz(nextId, quiz[s].question, quiz[s].answer)
        IN  IF fails
            THEN /\ Emit(s, "idle", <<errorlog("StoreError"), prompt>>)
                 /\ UNCHANGED <<storeVars, quiz>>
            ELSE IF msgs # <<>>
            THEN /\ Emit(s, "idle", catchValidation(msgs, how) \o <<prompt>>)
                 /\ UNCHANGED <<storeVars, quiz>>
            ELSE /\ store' = create(store, nextId, row.question, row.answer)
                 /\ nextId' = nextId + 1
                 /\ fresh' = fresh \cup { Quiz(nextId, q[s], last[s]) }
                 /\ quiz' = [quiz EXCEPT ![s] = row]
                 /\ Emit(s, "idle",
                         <<log("added", 0, row.question, row.answer), prompt>>)
    /\ writes' = [writes EXCEPT ![s] = IF store' # store THEN @ + 1 ELSE @]
    /\ UNCHANGED <<cmd, id, param, q, playVars, left, missing, last>>

(* ------------------------------ editCmd ------------------------------- *)

editCmd(s, arg) ==
    /\ Accepts(s)
    /\ WithId(s, "edit", arg, "findById")

\* On a terminal the handler also writes the stored text into the input
\* buffer (rl.write) before each prompt; the line the user sends is then
\* still any line, so the prompts take every line of Lines.
EditReply(s) ==
    /\ pc[s] = "findById" /\ cmd[s] = "edit"
    /\ \E fails \in BOOLEAN :
        LET r == findById(store, id[s])
        IN  /\ missing' = [missing EXCEPT ![s] = ~fails /\ r = NoQuiz]
            /\ IF fails
               THEN Emit(s, "idle", <<errorlog("StoreError"), prompt>>)
                    /\ UNCHANGED quiz
               ELSE IF notFound(r)
               THEN Emit(s, "idle", <<errorlog("NotFound"), prompt>>)
                    /\ UNCHANGED quiz
               ELSE Emit(s, "askQ", <<question("edit_question", Empty)>>)
                    /\ quiz' = [quiz EXCEPT ![s] = r]
    /\ UNCHANGED <<storeVars, cmd, id, param, q, playVars, left, last, writes>>

EditQuestion(s, line) ==
    /\ pc[s] = "askQ" /\ cmd[s] = "edit"
    /\ Resolve(s, line)
    /\ q' = [q EXCEPT ![s] = makeQuestion(line)]
    /\ Emit(s, "askA", <<typed(makeQuestion(line)), question("edit_answer", Empty)>>)
    /\ UNCHANGED <<storeVars, cmd, id, param, quiz, playVars, left, missing, writes>>

\* quiz.question = q; quiz.question = a; return quiz;
editAssign(r, qq, a) == [[r EXCEPT !.question = qq] EXCEPT !.question = a]

EditAnswer(s, line) ==
    /\ pc[s] = "askA" /\ cmd[s] = "edit"
    /\ Resolve(s, line)
    /\ quiz' = [quiz EXCEPT ![s] = editAssign(@, q[s], makeQuestion(line))]
    /\ Emit(s, "save", <<typed(makeQuestion(line))>>)
    /\ UNCHANGED <<storeVars, cmd, id, param, q, playVars, left, missing, writes>>

SaveReply(s) ==
    /\ pc[s] = "save" /\ cmd[s] = "edit"
    /\ \E fails \in BOOLEAN, how \in errorlogNoSocket :
        LET msgs == validate(quiz[s].question, quiz[s].answer)
        IN  IF fails
            THEN /\ Emit(s, "idle", <<errorlog("StoreError"), prompt>>)
                 /\ UNCHANGED <<store, fresh>>
            ELSE IF msgs # <<>>
            THEN /\ Emit(s, "idle", catchValidation(msgs, how) \o <<prompt>>)
                 /\ UNCHANGED <<store, fresh>>
            ELSE /\ store' = save(store, quiz[s])
                 /\ fresh' = { r \in fresh : r.id # quiz[s].id }
                 /\ Emit(s, "idle",
                         <<log("changed", quiz[s].id, quiz[s].question, quiz[s].answer),
                           prompt>>)
    /\ writes' = [writes EXCEPT ![s] = IF store' # store THEN @ + 1 ELSE @]
    /\ UNCHANGED <<nextId, cmd, id, param, quiz, q, playVars, left, missing, last>>

(* ------------------------------ testCmd ------------------------------- *)

testCmd(s, arg) ==
    /\ Accepts(s)
    /\ WithId(s, "test", arg, "findById")

\* findById rejects with no validation error, so the handler's
\* .catch(Sequelize.ValidationError, ...) is never entered.
TestReply(s) ==
    /\ pc[s] = "findById" /\ cmd[s] = "test"
    /\ \E fails \in BOOLEAN :
        LET r == findById(store, id[s])
        IN  /\ missing' = [missing EXCEPT ![s] = ~fails /\ r = NoQuiz]
            /\ IF fails
               THEN Emit(s, "idle", <<errorlog("StoreError"), prompt>>)
                    /\ UNCHANGED quiz
               ELSE IF notFound(r)
               THEN Emit(s, "idle", <<errorlog("NotFound"), prompt>>)
                    /\ UNCHANGED quiz
               ELSE Emit(s, "askTest", <<question("test", r.question)>>)
                    /\ quiz' = [quiz EXCEPT ![s] = r]
    /\ UNCHANGED <<storeVars, cmd, id, param, q, playVars, left, last, writes>>

\* a.trim().toLowerCase() === quiz.answer.toLowerCase()
testCorrect(a, r) == toLowerCase(trim(a)) = toLowerCase(r.answer)

\* The callback with the else branch run after the then branch of a right
\* answer.
testThenBoth(a, r) ==
    (IF testCorrect(a, r)
     THEN <<log("correct", 0, Empty, Empty), biglog("Correcta", 0)>>
     ELSE <<>>)
    \o <<log("incorrect", 0, Empty, Empty), biglog("Incorrecta", 0)>>
    \o <<prompt>> \o <<prompt>>

\* The callback of the prompt of testCmd, and the rest of the chain.
testThen(a, r) ==
    (IF testCorrect(a, r)
     THEN <<log("correct", 0, Empty, Empty), biglog("Correcta", 0)>>
     ELSE <<log("incorrect", 0, Empty, Empty), biglog("Incorrecta", 0)>>)
    \o <<prompt>> \o <<prompt>>

TestAnswer(s, line) ==
    /\ pc[s] = "askTest" /\ cmd[s] = "test"
    /\ Resolve(s, line)
    /\ Emit(s, "idle", <<typed(makeQuestion(line))>> \o testThen(makeQuestion(line), quiz[s]))
    /\ UNCHANGED <<storeVars, cmd, id, param, quiz, q, playVars, left, missing, writes>>

(* ------------------------------ playCmd ------------------------------- *)

playCmd(s) ==
    /\ Accepts(s)
    /\ param' = [param EXCEPT ![s] = Undefined]
    /\ Begin(s, "play", 0, "findAll", <<>>)

\* The loop of playCmd stopping one position early (i < length - 1).
initPoolShort(n) == [i \in 1..(n - 1) |-> i - 1]

\* for (let i = 0; i < preg_resp.length; i++) toBeResolved.push(i);
initPool(n) == [i \in 1..n |-> i - 1]

\* splice(0, 1): the head is taken out, whatever position was picked.
spliceHead(arr, i) == SubSeq(arr, 2, Len(arr))

\* toBeResolved.splice(i, 1), i counted from 0
splice(arr, i) == SubSeq(arr, 1, i) \o SubSeq(arr, i + 2, Len(arr))

\* The comparison of playOne turned round (!== for ===).
playCorrectNot(respuesta, r) == toLowerCase(trim(respuesta)) # toLowerCase(r.answer)

\* The comparison made with the row as the Store holds it when the response
\* comes, not as it was loaded.
playCorrectStore(respuesta, r) ==
    /\ findById(store, r.id) # NoQuiz
    /\ toLowerCase(trim(respuesta)) = toLowerCase(findById(store, r.id).answer)

\* respuesta.trim().toLowerCase() === quiz.answer.toLowerCase()
playCorrect(respuesta, r) == toLowerCase(trim(respuesta)) = toLowerCase(r.answer)

\* playOne with nothing left to ask.
wonLines(sc) ==
    <<log("nomore", 0, Empty, Empty), log("end", sc, Empty, Empty),
      biglog("score", sc), prompt>>

\* The callback of a prompt of playOne, the response being wrong.
lostLines(sc) ==
    <<log("INCORRECTO", 0, Empty, Empty), log("end", sc, Empty, Empty),
      biglog("score", sc), prompt>>

\* playOne with toBeResolved declared once for the module instead of once
\* for each call of playCmd: every round picks from the same pool.
playOneShared(s, pool, rows, sc, pre, post) ==
    IF Len(pool) = 0
    THEN /\ Emit(s, "idle", pre \o wonLines(sc) \o post)
         /\ toBeResolved' = [t \in Sessions |-> pool]
         /\ UNCHANGED <<quiz, asked>>
    ELSE \E i \in 0..(Len(pool) - 1) :
            LET r == rows[pool[i + 1] + 1]
            IN  /\ quiz' = [quiz EXCEPT ![s] = r]
                /\ toBeResolved' = [t \in Sessions |-> splice(pool, i)]
                /\ asked' = [asked EXCEPT ![s] = Append(@, pool[i + 1])]
                /\ Emit(s, "askPlay", pre \o <<question("play", r.question)>> \o post)

\* playOne(): with the pool empty the round is won; otherwise a random
\* position of the pool is taken out (Math.floor(Math.random() * length) is
\* any index of the pool) and its quiz is asked.  Nothing in the try block
\* throws, as the position taken is one of preg_resp.  pre is what the
\* caller did on the channel just before, post what it does just after:
\* playCmd does not return playOne()'s promise, so the last .then of its
\* chain runs as soon as playOne() has returned.
playOne(s, pool, rows, sc, pre, post) ==
    IF Len(pool) = 0
    THEN /\ Emit(s, "idle", pre \o wonLines(sc) \o post)
         /\ toBeResolved' = [toBeResolved EXCEPT ![s] = pool]
         /\ UNCHANGED <<quiz, asked>>
    ELSE \E i \in 0..(Len(pool) - 1) :
            LET r == rows[pool[i + 1] + 1]
            IN  /\ quiz' = [quiz EXCEPT ![s] = r]
                /\ toBeResolved' = [toBeResolved EXCEPT ![s] = splice(pool, i)]
                /\ asked' = [asked EXCEPT ![s] = Append(@, pool[i + 1])]
                /\ Emit(s, "askPlay", pre \o <<question("play", r.question)>> \o post)

PlayReply(s) ==
    /\ pc[s] = "findAll" /\ cmd[s] = "play"
    /\ \E fails \in BOOLEAN :
        IF fails
        THEN /\ Emit(s, "idle", <<errorlog("StoreError"), prompt>>)
             /\ UNCHANGED <<quiz, toBeResolved, preg_resp, asked>>
        ELSE LET rows == findAll(store)
             IN  /\ preg_resp' = [preg_resp EXCEPT ![s] = rows]
                 /\ playOne(s, initPool(Len(rows)), rows, score[s], <<>>, <<prompt>>)
    /\ UNCHANGED <<storeVars, cmd, id, param, q, score, left, missing, last, writes>>

PlayAnswer(s, line) ==
    /\ pc[s] = "askPlay" /\ cmd[s] = "play"
    /\ Resolve(s, line)
    /\ IF playCorrect(makeQuestion(line), quiz[s])
       THEN /\ score' = [score EXCEPT ![s] = @ + 1]
            /\ playOne(s, toBeResolved[s], preg_resp[s], score[s] + 1,
                       <<typed(makeQuestion(line)),
                         log("CORRECTO", score[s] + 1, Empty, Empty)>>, <<>>)
       ELSE /\ Emit(s, "idle", <<typed(makeQuestion(line))>> \o lostLines(score[s]))
            /\ UNCHANGED <<quiz, score, toBeResolved, asked>>
    /\ UNCHANGED <<storeVars, cmd, id, param, q, preg_resp, left, missing, writes>>

(* --------------------------- specification ---------------------------- *)

Next ==
    \E s \in Sessions :
        \/ helpCmd(s)
        \/ creditsCmd(s)
        \/ quitCmd(s)
        \/ listCmd(s)
        \/ ListReply(s)
        \/ \E arg \in Args : showCmd(s, arg)
        \/ ShowReply(s)
        \/ \E arg \in Args : deleteCmd(s, arg)
        \/ DestroyReply(s)
        \/ addCmd(s)
        \/ \E line \in Lines : AddQuestion(s, line)
        \/ \E line \in Lines : AddAnswer(s, line)
        \/ CreateReply(s)
        \/ \E arg \in Args : editCmd(s, arg)
        \/ EditReply(s)
        \/ \E line \in Lines : EditQuestion(s, line)
        \/ \E line \in Lines : EditAnswer(s, line)
        \/ SaveReply(s)
        \/ \E arg \in Args : testCmd(s, arg)
        \/ TestReply(s)
        \/ \E line \in Lines : TestAnswer(s, line)
        \/ playCmd(s)
        \/ PlayReply(s)
        \/ \E line \in Lines : PlayAnswer(s, line)

Spec == Init /\ [][Next]_vars

\* One session alone on the Store, the other having quit.
InitAlone ==
    /\ store \in InitStores
    /\ nextId = maxIdOf(store) + 1
    /\ pc = [s \in Sessions |-> IF s = "s1" THEN "idle" ELSE "closed"]
    /\ cmd = [s \in Sessions |-> IF s = "s1" THEN "none" ELSE "quit"]
    /\ id = [s \in Sessions |-> 0]
    /\ quiz = [s \in Sessions |-> NoQuiz]
    /\ q = [s \in Sessions |-> Empty]
    /\ score = [s \in Sessions |-> 0]
    /\ toBeResolved = [s \in Sessions |-> <<>>]
    /\ preg_resp = [s \in Sessions |-> <<>>]
    /\ out = [s \in Sessions |-> IF s = "s1" THEN <<>> ELSE <<close>>]
    /\ left = MaxCmds
    /\ missing = [s \in Sessions |-> FALSE]
    /\ asked = [s \in Sessions |-> <<>>]
    /\ last = [s \in Sessions |-> Empty]
    /\ writes = [s \in Sessions |-> 0]
    /\ param = [s \in Sessions |-> Undefined]
    /\ fresh = {}

\* The session's commands when the Store resolves every query and the user
\* answers every prompt.
FairSpec ==
    /\ InitAlone /\ [][Next]_vars
    /\ \A s \in Sessions :
        /\ WF_vars(ListReply(s) \/ ShowReply(s) \/ DestroyReply(s) \/ CreateReply(s)
                   \/ EditReply(s) \/ SaveReply(s) \/ TestReply(s) \/ PlayReply(s))
        /\ WF_vars(\E line \in Lines :
                       \/ AddQuestion(s, line) \/ AddAnswer(s, line)
                       \/ EditQuestion(s, line) \/ EditAnswer(s, line)
                       \/ TestAnswer(s, line) \/ PlayAnswer(s, line))

(* ---------------------------- properties ------------------------------ *)

\* The handler of s did something of this sort on its channel.
Has(s, ev, kind) == \E i \in 1..Len(out[s]) : out[s][i].ev = ev /\ out[s][i].kind = kind

\* How many times the handler of s did ev on its channel.
Count(s, ev) == Cardinality({ i \in 1..Len(out[s]) : out[s][i].ev = ev })

Range(f) == { f[i] : i \in 1..Len(f) }

\* A handler of s is running.
Active(s) == pc[s] \notin {"idle", "closed"}

\* The play round of s loaded its quizzes and is over.
Won(s) == cmd[s] = "play" /\ pc[s] = "idle" /\ Has(s, "log", "nomore")
Lost(s) == cmd[s] = "play" /\ pc[s] = "idle" /\ Has(s, "log", "INCORRECTO")

\* The response matches the answer, blanks around either and case apart.
Matches(response, answer) == toLowerCase(trim(response)) = toLowerCase(trim(answer))

\* C1: in a play round over N loaded quizzes the pool and the positions
\* asked always split 0..N-1, each position once (so the pool starts as
\* 0..N-1, a position asked has left the pool and none is asked twice), the
\* quiz in flight is the one at the position taken out last, and there is
\* one prompt per position asked, so at most N; a round over is won or lost.
C1_PoolConsumedOnce ==
    \A s \in Sessions :
        cmd[s] = "play" =>
            LET N == Len(preg_resp[s])
                both == toBeResolved[s] \o asked[s]
            IN  /\ Len(both) = N
                /\ Range(both) = 0..(N - 1)
                /\ Count(s, "question") = Len(asked[s])
                /\ Count(s, "question") <= N
                /\ pc[s] = "askPlay" =>
                     /\ asked[s] # <<>>
                     /\ quiz[s] = preg_resp[s][asked[s][Len(asked[s])] + 1]
                /\ (pc[s] = "idle" /\ ~Has(s, "errorlog", "StoreError")) =>
                     (Won(s) \/ Lost(s))

\* A round over two quizzes in which both positions were asked.
C1_Witness ==
    \E s \in Sessions :
        /\ cmd[s] = "play" /\ pc[s] = "idle"
        /\ Len(preg_resp[s]) = 2 /\ Len(asked[s]) = 2 /\ toBeResolved[s] = <<>>

\* C2: the score of a round starts at 0; a step changes it only by adding 1,
\* and only as the response to the quiz in flight matches its answer; a
\* response that does not match ends the round with the score as it was and
\* with no new prompt.
C2_ScoreOnlyOnMatch ==
    [][\A s \in Sessions :
          /\ (cmd'[s] = "play" /\ pc'[s] = "findAll") => score'[s] = 0
          /\ (cmd[s] = "play" /\ cmd'[s] = "play" /\ pc[s] # "idle") =>
                /\ score'[s] \in {score[s], score[s] + 1}
                /\ score'[s] = score[s] + 1 =>
                      /\ pc[s] = "askPlay"
                      /\ Matches(last'[s], quiz[s].answer)
                /\ (pc[s] = "askPlay" /\ out'[s] # out[s]
                    /\ ~Matches(last'[s], quiz[s].answer)) =>
                      /\ score'[s] = score[s]
                      /\ pc'[s] = "idle"
                      /\ Count(s, "question")' = Count(s, "question")
      ]_vars

\* A round lost after one right answer: the score stayed at 1.
C2_Witness ==
    \E s \in Sessions : Lost(s) /\ score[s] = 1 /\ Len(asked[s]) = 2

\* C3: a round that loaded N quizzes and is over is won exactly when all N
\* answers were counted right; it is then not lost, the score emitted is N,
\* the pool is empty and every position was asked; with N = 0 it is won
\* with score 0 and without a prompt.
C3_WonIffAllRight ==
    \A s \in Sessions :
        (cmd[s] = "play" /\ pc[s] = "idle" /\ ~Has(s, "errorlog", "StoreError")) =>
            LET N == Len(preg_resp[s])
            IN  /\ Won(s) <=> score[s] = N
                /\ Won(s) <=> ~Lost(s)
                /\ Won(s) =>
                     /\ toBeResolved[s] = <<>>
                     /\ Len(asked[s]) = N
                     /\ \E i \in 1..Len(out[s]) :
                           out[s][i].ev = "biglog" /\ out[s][i].n = N
                /\ N = 0 => (Won(s) /\ score[s] = 0 /\ Count(s, "question") = 0)

\* A round over two quizzes, won.
C3_Witness == \E s \in Sessions : Won(s) /\ score[s] = 2

\* A round over no quiz, won at once.
C3_WitnessEmpty == \E s \in Sessions : Won(s) /\ Len(preg_resp[s]) = 0

(* ------------------------ validateId on its own ----------------------- *)

\* Longest argument typed.
MaxArgLen == 2

\* The characters of an argument: blank, signs, digits, a letter.
ArgChars == {" ", "-", "+", "1", "2", "x"}

\* Every argument of at most MaxArgLen characters, and none.
WideArgs ==
    {Undefined} \cup UNION { [1..n -> ArgChars] : n \in 0..MaxArgLen }

\* One command with an id, of either session, on any such argument.
InitValidate ==
    /\ store \in InitStores
    /\ nextId = maxIdOf(store) + 1
    /\ pc = [s \in Sessions |-> "idle"]
    /\ cmd = [s \in Sessions |-> "none"]
    /\ id = [s \in Sessions |-> 0]
    /\ quiz = [s \in Sessions |-> NoQuiz]
    /\ q = [s \in Sessions |-> Empty]
    /\ score = [s \in Sessions |-> 0]
    /\ toBeResolved = [s \in Sessions |-> <<>>]
    /\ preg_resp = [s \in Sessions |-> <<>>]
    /\ out = [s \in Sessions |-> <<>>]
    /\ left = 1
    /\ missing = [s \in Sessions |-> FALSE]
    /\ asked = [s \in Sessions |-> <<>>]
    /\ last = [s \in Sessions |-> Empty]
    /\ writes = [s \in Sessions |-> 0]
    /\ param = [s \in Sessions |-> Undefined]
    /\ fresh = {}

NextValidate ==
    \E s \in Sessions, a \in WideArgs :
        \/ showCmd(s, a)
        \/ deleteCmd(s, a)
        \/ editCmd(s, a)
        \/ testCmd(s, a)

SpecValidate == InitValidate /\ [][NextValidate]_vars

\* The commands that look a quiz up by the id given.
ById == {"show", "test", "edit", "delete"}

\* C4: a handler signals ready for the next command only when its whole
\* chain is over: while the handler runs (a query or a prompt in flight,
\* a play round neither won nor lost) it has signalled nothing.
C4_ReadyOnlyWhenDone ==
    \A s \in Sessions : Active(s) => Count(s, "prompt") = 0

\* C5: when the Store accepts the save of an edit of an existing quiz, the
\* responses q and a being texts the Store accepts, the row saved has the
\* id it had, q as question and a as answer.
C5_EditSavesBoth ==
    [][\A s \in Sessions :
          (/\ cmd[s] = "edit" /\ pc[s] = "save" /\ pc'[s] = "idle"
           /\ Has(s, "log", "changed")'
           /\ validate(q[s], last[s]) = <<>>
           /\ findById(store, id[s]) # NoQuiz)
          => findById(store', id[s]) = Quiz(id[s], q[s], last[s])
      ]_vars

\* C6: show, test, edit and delete, given an id the Store holds no quiz
\* for, emit a NotFound error line.
C6_NotFoundReported ==
    \A s \in Sessions :
        (cmd[s] \in ById /\ pc[s] = "idle" /\ missing[s])
        => Has(s, "errorlog", "NotFound")

\* C7: show, test, edit and delete, given an id the Store holds no quiz
\* for, leave the Store as it was and prompt the user for nothing.
C7_MissingIdNoEffect ==
    /\ [](\A s \in Sessions :
            (cmd[s] \in ById /\ missing[s])
            => (writes[s] = 0 /\ Count(s, "question") = 0 /\ pc[s] = "idle"))
    /\ [][\A s \in Sessions :
            (cmd'[s] \in ById /\ missing'[s] /\ ~missing[s]) => store' = store
         ]_vars

\* An edit of an id without a quiz, over with its error line.
C7_Witness ==
    \E s \in Sessions :
        cmd[s] = "edit" /\ missing[s] /\ pc[s] = "idle" /\ Has(s, "errorlog", "NotFound")

\* C8: a handler that runs comes to its end with the ready signal emitted,
\* when every prompt is answered and every query resolved; and a command
\* other than quit that is over has emitted the signal, on every path.
C8_ReadyEventually ==
    \A s \in Sessions :
        /\ [](Active(s) => <>(pc[s] = "idle" /\ Count(s, "prompt") >= 1))
        /\ []((pc[s] = "idle" /\ cmd[s] \notin {"none", "quit"})
              => Count(s, "prompt") >= 1)

\* An add the Store rejected, over with the ready signal.
C8_Witness ==
    \E s \in Sessions :
        /\ cmd[s] = "add" /\ pc[s] = "idle"
        /\ Has(s, "errorlog", "ValidationHeader") /\ Count(s, "prompt") >= 1

\* error.errors.forEach(({message}) => errorlog(socket, message))
forEachErrorlog(msgs) == [i \in 1..Len(msgs) |-> Ev("errorlog", "field", i, Empty, Empty)]

\* C9: when the Store rejects the write of an add or an edit with k field
\* messages, the handler ends its channel output with the header error
\* line, one error line per field message in order, and the ready signal;
\* the Store is unchanged.
C9_ValidationReported ==
    \A s \in Sessions :
        (cmd[s] \in {"add", "edit"} /\ pc[s] = "idle"
         /\ Has(s, "errorlog", "ValidationHeader"))
        => LET msgs == validate(quiz[s].question, quiz[s].answer)
               k == Len(msgs)
               n == Len(out[s])
           IN  /\ n >= k + 2
               /\ SubSeq(out[s], n - k - 1, n)
                    = <<errorlog("ValidationHeader")>> \o forEachErrorlog(msgs)
                      \o <<prompt>>
               /\ writes[s] = 0

\* C10: test reports "correct" exactly when the response and the stored
\* answer are equal once both are trimmed and lower-cased.
C10_TestVerdict ==
    \A s \in Sessions :
        (cmd[s] = "test" /\ pc[s] = "idle"
         /\ (Has(s, "log", "correct") \/ Has(s, "log", "incorrect")))
        => (Has(s, "log", "correct") <=> Matches(last[s], quiz[s].answer))

\* C11: a show of the id the Store gave to a quiz that add created from
\* the responses q and a, with no edit or delete of that id since, emits the
\* line carrying that id, q and a (the Store resolving the query).
C11_AddThenShow ==
    [][\A s \in Sessions :
          (/\ cmd[s] = "show" /\ pc[s] = "findById" /\ pc'[s] = "idle"
           /\ ~Has(s, "errorlog", "StoreError")')
          => \A r \in fresh :
                r.id = id[s]
                => \E i \in 1..Len(out'[s]) :
                      out'[s][i] = log("show", r.id, r.question, r.answer)
      ]_vars

\* A show that printed a quiz add had created.
C11_Witness ==
    \E s \in Sessions :
        /\ cmd[s] = "show" /\ pc[s] = "idle" /\ Has(s, "log", "show")
        /\ \E r \in fresh : r.id = id[s]

\* p is blanks, then maybe a sign, then digits, at least one.
IsIntegerText(p) ==
    \E w \in 0..Len(p), sg \in 0..1 :
        /\ w + sg < Len(p)
        /\ \A i \in 1..w : p[i] = " "
        /\ sg = 1 => p[w + 1] \in {"-", "+"}
        /\ \A i \in (w + sg + 1)..Len(p) : IsDigit(p[i])

\* The lengths of the leading parts of a that are integer texts.
IntegerPrefixes(a) == { k \in 1..Len(a) : IsIntegerText(SubSeq(a, 1, k)) }

\* The value of the digits at the end of p, the last digit being the units.
RECURSIVE Numeral(_)
Numeral(p) ==
    IF p = <<>> \/ ~IsDigit(p[Len(p)]) THEN 0
    ELSE 10 * Numeral(SubSeq(p, 1, Len(p) - 1)) + DigitVal(p[Len(p)])

\* The integer of the longest leading integer text of a, sign kept.
LeadingInteger(a) ==
    LET k == CHOOSE x \in IntegerPrefixes(a) : \A y \in IntegerPrefixes(a) : y <= x
        p == SubSeq(a, 1, k)
    IN  IF "-" \in Range(p) THEN 0 - Numeral(p) ELSE Numeral(p)

\* C12: a command given no argument ends with the MissingParameter error;
\* given an argument with no leading integer it ends with the
\* InvalidParameter error; otherwise validateId resolves with the integer
\* of the longest leading integer text, negative when the text says so, and
\* the handler goes on to the Store with it.
C12_ValidateId ==
    \A s \in Sessions :
        cmd[s] \in ById =>
            IF param[s] = Undefined
            THEN pc[s] = "idle" /\ out[s] = <<errorlog("MissingParameter"), prompt>>
            ELSE IF IntegerPrefixes(param[s]) = {}
            THEN pc[s] = "idle" /\ out[s] = <<errorlog("InvalidParameter"), prompt>>
            ELSE /\ pc[s] \in {"findById", "destroy"}
                 /\ out[s] = <<>>
                 /\ id[s] = LeadingInteger(param[s])

\* A negative id resolved, and an id read from before a letter.
C12_Witness ==
    \E s \in Sessions :
        /\ cmd[s] \in ById /\ pc[s] # "idle"
        /\ id[s] = 0 - 1 /\ param[s] = <<"-", "1">>

C12_WitnessPrefix ==
    \E s \in Sessions :
        cmd[s] \in ById /\ id[s] = 2 /\ param[s] = <<"2", "x">>

\* C13: whatever add, edit and delete commands the sessions run, every quiz
\* of the Store has an id no other quiz of the Store has, a non-empty
\* question and a non-empty answer.
C13_StoreWellFormed ==
    \A a \in store :
        /\ a.question # Empty
        /\ a.answer # Empty
        /\ \A b \in store : b.id = a.id => b = a

\* Both sessions have written the Store, one of them by adding a quiz.
C13_Witness ==
    /\ \A s \in Sessions : writes[s] > 0
    /\ \E s \in Sessions : cmd[s] = "add"
    /\ store # {}

\* The prompts of session s not yet responded to after its first k events.
InFlight(s, k) ==
    Cardinality({ i \in 1..k : out[s][i].ev = "question" })
    - Cardinality({ i \in 1..k : out[s][i].ev = "line" })

\* The handler of s is waiting for a response line.
Waiting(s) == pc[s] \in {"askQ", "askA", "askTest", "askPlay"}

\* C14: on one channel at most one prompt is in flight at any time: every
\* prompt but the first of a command is issued after the response to the
\* prompt before it, and a prompt is in flight exactly while the handler
\* waits for a response.
C14_OnePromptInFlight ==
    \A s \in Sessions :
        /\ \A k \in 0..Len(out[s]) : InFlight(s, k) \in {0, 1}
        /\ InFlight(s, Len(out[s])) = (IF Waiting(s) THEN 1 ELSE 0)

\* The answer prompt of add or edit, and the second question of a play
\* round, are in flight.
C14_Witness ==
    \E s \in Sessions :
        /\ cmd[s] \in {"add", "edit"} /\ pc[s] = "askA"
        /\ Count(s, "question") = 2 /\ Count(s, "line") = 1

C14_WitnessPlay ==
    \E s \in Sessions :
        /\ cmd[s] = "play" /\ pc[s] = "askPlay"
        /\ Count(s, "question") = 2 /\ Count(s, "line") = 1

\* The verdict lines of the current command of s.
Verdicts(s) ==
    { i \in 1..Len(out[s]) :
        out[s][i].ev = "log" /\ out[s][i].kind \in {"correct", "incorrect"} }

\* C15: a test command that found its quiz issues one prompt; when the
\* response has come it has emitted one verdict line, with one banner, and
\* no second prompt; before that it has emitted no verdict.
C15_TestOnePromptOneVerdict ==
    \A s \in Sessions :
        (cmd[s] = "test" /\ quiz[s] # NoQuiz) =>
            /\ Count(s, "question") = 1
            /\ pc[s] \in {"askTest", "idle"}
            /\ pc[s] = "askTest" => Verdicts(s) = {} /\ Count(s, "biglog") = 0
            /\ pc[s] = "idle" =>
                   /\ Cardinality(Verdicts(s)) = 1
                   /\ Count(s, "biglog") = 1
                   /\ Count(s, "line") = 1

\* A test answered right, and a test answered wrong.
C15_Witness ==
    \E s \in Sessions :
        cmd[s] = "test" /\ pc[s] = "idle" /\ Has(s, "log", "correct")

C15_WitnessWrong ==
    \E s \in Sessions :
        cmd[s] = "test" /\ pc[s] = "idle" /\ Has(s, "log", "incorrect")

\* The step is one of session t.
StepOf(t) == pc'[t] # pc[t] \/ out'[t] # out[t]

\* C16: a step of a play round of one session (its load, a pick, an answer
\* or its end) leaves the score, the pool, the working set, the picks and
\* the quiz in hand of a round of another session as they were.
C16_PlayRoundsIsolated ==
    [][\A s \in Sessions, t \in Sessions :
          (s # t /\ cmd[s] = "play" /\ cmd'[t] = "play" /\ StepOf(t))
          => /\ score'[s] = score[s]
             /\ toBeResolved'[s] = toBeResolved[s]
             /\ preg_resp'[s] = preg_resp[s]
             /\ asked'[s] = asked[s]
             /\ quiz'[s] = quiz[s]
             /\ pc'[s] = pc[s]
             /\ out'[s] = out[s]
      ]_vars

\* One round has scored and waits for its next response while the round of
\* the other session, begun on the same table, has answered and ended.
C16_Witness ==
    \E s \in Sessions, t \in Sessions :
        /\ s # t /\ cmd[s] = "play" /\ cmd[t] = "play"
        /\ pc[s] = "askPlay" /\ score[s] = 1 /\ Len(toBeResolved[s]) = 0
        /\ pc[t] = "idle" /\ Count(t, "line") = 1 /\ Len(toBeResolved[t]) = 1

\* C17: the quit command closes the channel of its session and emits
\* nothing else, no ready signal in particular; from then on the session
\* stays closed and nothing more is emitted on its channel.
C17_QuitCloses ==
    /\ [](\A s \in Sessions :
             (cmd[s] = "quit" \/ pc[s] = "closed")
             => pc[s] = "closed" /\ cmd[s] = "quit" /\ out[s] = <<close>>)
    /\ [][\A s \in Sessions :
             pc[s] = "closed" => pc'[s] = "closed" /\ out'[s] = out[s]]_vars

\* One session has quit and the other has gone on to the end of a command.
C17_Witness ==
    \E s \in Sessions, t \in Sessions :
        /\ pc[s] = "closed" /\ cmd[s] = "quit"
        /\ cmd[t] \notin {"none", "quit"} /\ pc[t] = "idle" /\ left = 0

\* C18: the events of one command other than quit hold at most one ready
\* signal, on every path of its handler.
C18_ReadyAtMostOnce ==
    \A s \in Sessions : cmd[s] # "quit" => Count(s, "prompt") <= 1

\* The argument is absent, or has no leading integer.
Unparseable(a) == a = Undefined \/ IntegerPrefixes(a) = {}

\* The step is the start of a command of session s.
StartOf(s) ==
    /\ left' # left
    /\ \A t \in Sessions \ {s} :
          cmd'[t] = cmd[t] /\ pc'[t] = pc[t] /\ out'[t] = out[t] /\ param'[t] = param[t]

\* C19: a show, delete, edit or test whose argument is absent or has no
\* leading integer is over at once: its events are one error line and the
\* ready signal, it has put no query or write to the Store and no prompt to
\* the user, and its step leaves the Store as it was.
C19_RejectedIdNoEffect ==
    /\ [](\A s \in Sessions :
             (cmd[s] \in ById /\ Unparseable(param[s]))
             => /\ pc[s] = "idle"
                /\ \E e \in {"MissingParameter", "InvalidParameter"} :
                      out[s] = <<errorlog(e), prompt>>
                /\ Count(s, "question") = 0
                /\ writes[s] = 0
                /\ quiz[s] = NoQuiz /\ ~missing[s])
    /\ [][\A s \in Sessions :
             (StartOf(s) /\ cmd'[s] \in ById /\ Unparseable(param'[s]))
             => store' = store /\ nextId' = nextId /\ fresh' = fresh]_vars

\* A command rejected for an argument that is no number, after the other
\* session has written the Store; and one rejected for a missing argument.
C19_Witness ==
    \E s \in Sessions, t \in Sessions :
        /\ cmd[s] \in ById /\ param[s] = <<"x">>
        /\ Has(s, "errorlog", "InvalidParameter")
        /\ t # s /\ writes[t] > 0

C19_WitnessMissing ==
    \E s \in Sessions :
        /\ cmd[s] \in ById /\ param[s] = Undefined
        /\ Has(s, "errorlog", "MissingParameter")

\* The round of s has loaded its quizzes.
Loaded(s) == cmd[s] = "play" /\ pc[s] # "findAll" /\ ~Has(s, "errorlog", "StoreError")

\* C20: a play round works on the quizzes as it loaded them.  It prompts
\* once for each pick, the picks and the quizzes still to be asked making up
\* the N loaded, and the quiz in hand is one of them; a step that changes
\* the Store is never one of the round and changes nothing of the round;
\* and a response scores exactly when it is the answer the quiz in hand
\* was loaded with.
C20_PlaySnapshot ==
    /\ [](\A s \in Sessions :
             /\ cmd[s] = "play" => writes[s] = 0
             /\ Loaded(s) =>
                   /\ Count(s, "question") = Len(asked[s])
                   /\ Len(asked[s]) + Len(toBeResolved[s]) = Len(preg_resp[s])
                   /\ pc[s] = "askPlay" => quiz[s] \in Range(preg_resp[s]))
    /\ [][\A s \in Sessions :
             (cmd[s] = "play" /\ store' # store)
             => /\ cmd'[s] = "play" /\ pc'[s] = pc[s] /\ out'[s] = out[s]
                /\ preg_resp'[s] = preg_resp[s]
                /\ toBeResolved'[s] = toBeResolved[s]
                /\ asked'[s] = asked[s]
                /\ quiz'[s] = quiz[s]
                /\ score'[s] = score[s]]_vars
    /\ [][\A s \in Sessions :
             (cmd[s] = "play" /\ pc[s] = "askPlay" /\ StepOf(s))
             => /\ store' = store
                /\ score'[s] = score[s]
                       + (IF toLowerCase(trim(last'[s])) = toLowerCase(quiz[s].answer)
                          THEN 1 ELSE 0)]_vars

\* A round that has scored waits for the response to a quiz that the Store
\* no longer holds as the round loaded it.
C20_Witness ==
    \E s \in Sessions :
        /\ cmd[s] = "play" /\ pc[s] = "askPlay" /\ score[s] = 1
        /\ quiz[s] \notin store

\* A round won with every quiz it loaded, one of them gone from the Store.
C20_WitnessWon ==
    \E s \in Sessions :
        /\ Won(s) /\ score[s] = 2 /\ Len(preg_resp[s]) = 2
        /\ \E i \in 1..2 : preg_resp[s][i] \notin store

====
